---- MODULE Spec2Model ----
(***************************************************************************)
(* CartPoleContinuousEnv (src/env/cartpole_continuous.py): the engine's    *)
(* state, its step / reset / seed operations and the cart-pole dynamics.   *)
(*                                                                         *)
(* Reals are fixed-point integers with three decimals (1.0 is Scale), so   *)
(* x = -5.0 is -5000 and tau = 0.005 is 5.  Products and quotients round    *)
(* towards minus infinity; np.sin and np.cos are Bhaskara's rational        *)
(* approximation, within 0.003 of the true value.  Every intermediate of   *)
(* the dynamics stays below 2^31 for the rates and actions the bounds       *)
(* admit.                                                                  *)
(***************************************************************************)
EXTENDS Integers, Sequences, FiniteSets, TLC

VARIABLES
    state,              \* self.state per engine: <<x, x_dot, theta, theta_dot>>, <<>> while None
    steps_beyond_done,  \* self.steps_beyond_done per engine: None or a count
    F_t,                \* self.F_t per engine: the loaded 4x5 matrix [G | H]
    np_random,          \* self.np_random per engine: the seed of the generator
    ret,                \* the value returned by the engine's last call
    logged,             \* whether the engine's last call emitted logger.warning
    call,               \* history: the engine's last call, its argument, the state and counter at entry
    nsteps,             \* history: step calls since the engine's last reset
    done_steps,         \* history: step calls since the last reset that returned done = True
    warn_count          \* history: warnings emitted since the last reset

vars == <<state, steps_beyond_done, F_t, np_random, ret, logged, call,
          nsteps, done_steps, warn_count>>

----------------------------------------------------------------------------
(* Bounds of the model *)

\* step calls explored after a reset in the single-engine runs
MaxSteps == 4
\* step calls explored after a reset when two engines run side by side
MaxPairSteps == 2
\* largest |x_dot|, |theta_dot| (fixed-point) from which a step is explored
MaxRate == 2500000

\* the engines constructed, and the seeds the seeding interface hands out
Engines == {1, 2}
Seeds == {0, 1}

----------------------------------------------------------------------------
(* Fixed-point arithmetic *)

Scale == 1000

\* Python's None for the termination counter: distinct from every count
None == -1
\* self.state = None
NoState == <<>>

Abs(a) == IF a < 0 THEN -a ELSE a

\* floor(big * small / Scale), splitting big so no intermediate overflows
SplitMul(big, small) == small * (big \div Scale) + (small * (big % Scale)) \div Scale

\* a * b
FixMul(a, b) == IF Abs(a) >= Abs(b) THEN SplitMul(a, b) ELSE SplitMul(b, a)

\* a / b for b > 0: floor(a * Scale / b)
FixDiv(a, b) == Scale * (a \div b) + ((a % b) * Scale) \div b

\* np.pi
PI == 3142

\* sine of an angle in [0, PI]
SinHalfTurn(t) == (16 * (t * (PI - t))) \div ((5 * PI * PI - 4 * (t * (PI - t))) \div Scale)

\* np.sin
Sin(t) ==
    LET r == t % (2 * PI)
    IN  IF r <= PI THEN SinHalfTurn(r) ELSE -SinHalfTurn(r - PI)

\* np.cos
Cos(t) == Sin(t + PI \div 2)

----------------------------------------------------------------------------
(* Environment configuration, __init__ *)

gravity == 9800
masscart == 500
masspole == 100
total_mass == masspole + masscart
length == 300
polemass_length == FixMul(masspole, length)
max_force == 20000
tau == 5
b == 100
I == 12
theta_threshold_radians == (12 * 2 * PI) \div 360
x_threshold == 2400

\* Matrices np.loadtxt may deliver for [G | H]: all zeros, and the identity
\* on the state with a zero action column
ZeroMatrix == [i \in 1..4 |-> [j \in 1..5 |-> 0]]
UnitMatrix == [i \in 1..4 |-> [j \in 1..5 |-> IF i = j THEN Scale ELSE 0]]
Matrices == {ZeroMatrix, UnitMatrix}

\* Actions handed to step: no force, max_force, and two forces beyond the
\* declared bounds (_step does not enforce them): one that carries the cart
\* from the reset state to between the thresholds in two steps, and one
\* that brakes it there
Actions == {<<0>>, <<max_force>>, <<-107000000>>, <<153300000>>}
PairActions == {<<0>>, <<-107000000>>}

\* seed arguments: None (<<>>) or an explicit seed
SeedArgs == {<<>>} \cup {<<s>> : s \in Seeds}

----------------------------------------------------------------------------
(* _state_eq *)

\* F_t @ states.ravel(), states = np.concatenate([st, u])
LinearModel(F, st, u) ==
    LET states == st \o u
    IN  [i \in 1..4 |->
            FixMul(F[i][1], states[1]) + FixMul(F[i][2], states[2])
          + FixMul(F[i][3], states[3]) + FixMul(F[i][4], states[4])
          + FixMul(F[i][5], states[5])]

\* the angle discontinuity handling after the Euler update
WrapTheta(pre_theta, theta) ==
    IF pre_theta < PI /\ theta >= PI THEN theta - 2 * PI
    ELSE IF pre_theta > -PI /\ theta <= -PI THEN theta + 2 * PI
    ELSE theta

\* a slip: x advanced with the x_dot already updated
AdvanceXWithNewRate(x, x_dot, xacc) == x + FixMul(tau, x_dot + FixMul(tau, xacc))

\* x = x + self.tau * x_dot, with the x_dot of the state at entry
AdvanceX(x, x_dot, xacc) == x + FixMul(tau, x_dot)

\* a slip: the linear model's result returned (the "return result" left in)
state_eq_linear(F, st, u) ==
    LET result == LinearModel(F, st, u)
    IN  << result[1], result[2], result[3], result[4] >>

state_eq(F, st, u) ==
    LET result == LinearModel(F, st, u)   \* computed and discarded
        x == st[1]
        x_dot == st[2]
        theta == st[3]
        theta_dot == st[4]
        pre_theta == theta
        force == -u[1]
        costheta == Cos(theta)
        sintheta == Sin(theta)
        temp == FixDiv(force
                       + FixMul(FixMul(FixMul(polemass_length, theta_dot), theta_dot), sintheta)
                       - FixMul(b, x_dot),
                       total_mass)
        thetaacc == FixDiv(FixMul(gravity, sintheta) - FixMul(costheta, temp),
                           FixDiv(I, masspole) + length
                           - FixDiv(FixMul(masspole, FixMul(costheta, costheta)), total_mass))
        xacc == temp - FixDiv(FixMul(FixMul(polemass_length, thetaacc), costheta), total_mass)
    IN  << AdvanceX(x, x_dot, xacc),
           x_dot + FixMul(tau, xacc),
           WrapTheta(pre_theta, theta + FixMul(tau, theta_dot)),
           theta_dot + FixMul(tau, thetaacc) >>

----------------------------------------------------------------------------
(* _step, _reset, _seed *)

\* a slip: a state on a threshold counted as done
TerminatedOnThreshold(st) ==
    \/ st[1] <= -x_threshold
    \/ st[1] >= x_threshold
    \/ st[3] <= -theta_threshold_radians
    \/ st[3] >= theta_threshold_radians

\* done: the state has left the balanced region
Terminated(st) ==
    \/ st[1] < -x_threshold
    \/ st[1] > x_threshold
    \/ st[3] < -theta_threshold_radians
    \/ st[3] > theta_threshold_radians

\* a slip: reward 1.0 on every step past termination too
StepOutcomeAlwaysRewards(done, sbd) ==
    IF ~done THEN
        [reward |-> 1, steps_beyond_done |-> sbd, warning |-> FALSE]
    ELSE IF sbd = None THEN
        [reward |-> 1, steps_beyond_done |-> 0, warning |-> FALSE]
    ELSE
        [reward |-> 1, steps_beyond_done |-> sbd + 1, warning |-> (sbd = 0)]

\* a slip: the counter tested before done
StepOutcomeCounterFirst(done, sbd) ==
    IF sbd # None THEN
        [reward |-> 0, steps_beyond_done |-> sbd + 1, warning |-> (sbd = 0)]
    ELSE IF ~done THEN
        [reward |-> 1, steps_beyond_done |-> sbd, warning |-> FALSE]
    ELSE
        [reward |-> 1, steps_beyond_done |-> 0, warning |-> FALSE]

\* a slip: a set counter incremented by steps that are not done as well
StepOutcomeCountsAllSteps(done, sbd) ==
    IF ~done THEN
        [reward |-> 1, steps_beyond_done |-> IF sbd = None THEN None ELSE sbd + 1,
         warning |-> FALSE]
    ELSE IF sbd = None THEN
        [reward |-> 1, steps_beyond_done |-> 0, warning |-> FALSE]
    ELSE
        [reward |-> 0, steps_beyond_done |-> sbd + 1, warning |-> (sbd = 0)]

\* a slip: the warning on every step past termination
StepOutcomeWarnsAlways(done, sbd) ==
    IF ~done THEN
        [reward |-> 1, steps_beyond_done |-> sbd, warning |-> FALSE]
    ELSE IF sbd = None THEN
        [reward |-> 1, steps_beyond_done |-> 0, warning |-> FALSE]
    ELSE
        [reward |-> 0, steps_beyond_done |-> sbd + 1, warning |-> TRUE]

\* a slip: the counter started at 1 by the terminating step
StepOutcomeStartsAtOne(done, sbd) ==
    IF ~done THEN
        [reward |-> 1, steps_beyond_done |-> sbd, warning |-> FALSE]
    ELSE IF sbd = None THEN
        [reward |-> 1, steps_beyond_done |-> 1, warning |-> FALSE]
    ELSE
        [reward |-> 0, steps_beyond_done |-> sbd + 1, warning |-> (sbd = 0)]

\* the three-way branch of _step on done and the counter at entry:
\* the reward (1 is 1.0, 0 is 0.0), the counter at exit, the warning
StepOutcome(done, sbd) ==
    IF ~done THEN
        [reward |-> 1, steps_beyond_done |-> sbd, warning |-> FALSE]
    ELSE IF sbd = None THEN
        [reward |-> 1, steps_beyond_done |-> 0, warning |-> FALSE]
    ELSE
        [reward |-> 0, steps_beyond_done |-> sbd + 1, warning |-> (sbd = 0)]

\* np.array([-5.0, 0.0, 0.3 * np.pi, 0.0])
InitialState == << -5 * Scale, 0, FixMul(300, PI), 0 >>

\* the state after __init__: nothing stepped, no state, matrix loaded, generator seeded
Init ==
    /\ state = [e \in Engines |-> NoState]
    /\ steps_beyond_done = [e \in Engines |-> None]
    /\ F_t \in [Engines -> Matrices]
    /\ np_random \in [Engines -> Seeds]
    /\ ret = [e \in Engines |-> [op |-> "init"]]
    /\ logged = [e \in Engines |-> FALSE]
    /\ call = [e \in Engines |-> [op |-> "init", arg |-> <<>>, pre |-> NoState, pre_sbd |-> None]]
    /\ nsteps = [e \in Engines |-> 0]
    /\ done_steps = [e \in Engines |-> 0]
    /\ warn_count = [e \in Engines |-> 0]

\* env._step(u).  Before the first reset self.state is None and
\* np.concatenate raises before anything is assigned: the call is not enabled.
Step(e, u) ==
    /\ state[e] # NoState
    /\ LET st == state_eq(F_t[e], state[e], u)
           done == Terminated(st)
           out == StepOutcome(done, steps_beyond_done[e])
       IN  /\ state' = [state EXCEPT ![e] = st]
           /\ steps_beyond_done' = [steps_beyond_done EXCEPT ![e] = out.steps_beyond_done]
           /\ ret' = [ret EXCEPT ![e] = [op |-> "step", obs |-> st, reward |-> out.reward, done |-> done]]
           /\ logged' = [logged EXCEPT ![e] = out.warning]
           /\ call' = [call EXCEPT ![e] = [op |-> "step", arg |-> u, pre |-> state[e],
                                           pre_sbd |-> steps_beyond_done[e]]]
           /\ nsteps' = [nsteps EXCEPT ![e] = @ + 1]
           /\ done_steps' = [done_steps EXCEPT ![e] = IF done THEN @ + 1 ELSE @]
           /\ warn_count' = [warn_count EXCEPT ![e] = IF out.warning THEN @ + 1 ELSE @]
    /\ UNCHANGED <<F_t, np_random>>

\* a slip: reset that leaves the counter as it was
ResetKeepsCounter(e) ==
    /\ state' = [state EXCEPT ![e] = InitialState]
    /\ ret' = [ret EXCEPT ![e] = [op |-> "reset", obs |-> InitialState]]
    /\ logged' = [logged EXCEPT ![e] = FALSE]
    /\ call' = [call EXCEPT ![e] = [op |-> "reset", arg |-> <<>>, pre |-> state[e],
                                    pre_sbd |-> steps_beyond_done[e]]]
    /\ nsteps' = [nsteps EXCEPT ![e] = 0]
    /\ done_steps' = [done_steps EXCEPT ![e] = 0]
    /\ warn_count' = [warn_count EXCEPT ![e] = 0]
    /\ UNCHANGED <<steps_beyond_done, F_t, np_random>>

\* env._reset()
Reset(e) ==
    /\ state' = [state EXCEPT ![e] = InitialState]
    /\ steps_beyond_done' = [steps_beyond_done EXCEPT ![e] = None]
    /\ ret' = [ret EXCEPT ![e] = [op |-> "reset", obs |-> InitialState]]
    /\ logged' = [logged EXCEPT ![e] = FALSE]
    /\ call' = [call EXCEPT ![e] = [op |-> "reset", arg |-> <<>>, pre |-> state[e],
                                    pre_sbd |-> steps_beyond_done[e]]]
    /\ nsteps' = [nsteps EXCEPT ![e] = 0]
    /\ done_steps' = [done_steps EXCEPT ![e] = 0]
    /\ warn_count' = [warn_count EXCEPT ![e] = 0]
    /\ UNCHANGED <<F_t, np_random>>

\* env._seed(seed): seeding.np_random draws a seed when given None
Seed(e, seed) ==
    /\ \E s \in Seeds :
          /\ seed = <<>> \/ seed = <<s>>
          /\ np_random' = [np_random EXCEPT ![e] = s]
          /\ ret' = [ret EXCEPT ![e] = [op |-> "seed", seeds |-> <<s>>]]
    /\ logged' = [logged EXCEPT ![e] = FALSE]
    /\ call' = [call EXCEPT ![e] = [op |-> "seed", arg |-> seed, pre |-> state[e],
                                    pre_sbd |-> steps_beyond_done[e]]]
    /\ UNCHANGED <<state, steps_beyond_done, F_t, nsteps, done_steps, warn_count>>

\* a step is explored while the episode is short and the rates are moderate
Explored(e, max) ==
    /\ nsteps[e] < max
    /\ state[e] # NoState
    /\ Abs(state[e][2]) <= MaxRate
    /\ Abs(state[e][4]) <= MaxRate

\* one engine driven by its caller; the other engines stay as constructed
Next ==
    \/ \E u \in Actions : Explored(1, MaxSteps) /\ Step(1, u)
    \/ Reset(1)
    \/ \E seed \in SeedArgs : Seed(1, seed)

Spec == Init /\ [][Next]_vars

\* two engines driven independently
NextPair ==
    \/ \E e \in Engines : \E u \in PairActions : Explored(e, MaxPairSteps) /\ Step(e, u)
    \/ \E e \in Engines : Reset(e)
    \/ \E e \in Engines : \E seed \in SeedArgs : Seed(e, seed)

SpecPair == Init /\ [][NextPair]_vars

----------------------------------------------------------------------------
(* Properties *)

\* the engine's last call was a step
Stepped(e) == call[e].op = "step"

\* step calls before the last one, since the last reset, that returned done
EarlierDone(e) == done_steps[e] - (IF ret[e].done THEN 1 ELSE 0)

\* C1: the done flag a step returns is true exactly when the state the same
\* call returns has x < -2.4, x > 2.4, theta < -12 degrees or theta > 12
\* degrees; a returned x or theta equal to a threshold gives done = false.
C1_DoneIffOutside ==
    \A e \in Engines :
        Stepped(e) =>
            /\ ret[e].obs = state[e]
            /\ ret[e].done <=> \/ ret[e].obs[1] < -2400
                               \/ ret[e].obs[1] > 2400
                               \/ ret[e].obs[3] < -209
                               \/ ret[e].obs[3] > 209

\* a step returned theta equal to -theta_threshold_radians, x inside, not done
C1_Witness ==
    \E e \in Engines :
        /\ Stepped(e)
        /\ ret[e].obs[3] = -209
        /\ Abs(ret[e].obs[1]) < 2400
        /\ ~ret[e].done

\* C2: between two resets the first step that returns done returns reward
\* 1.0 and sets the counter to 0; every later step that returns done returns
\* reward 0.0 and leaves the counter strictly greater than it was at entry.
C2_RewardSequencing ==
    \A e \in Engines :
        (Stepped(e) /\ ret[e].done) =>
            /\ done_steps[e] = 1 =>
                  /\ ret[e].reward = 1
                  /\ steps_beyond_done[e] = 0
            /\ done_steps[e] > 1 =>
                  /\ ret[e].reward = 0
                  /\ call[e].pre_sbd # None
                  /\ steps_beyond_done[e] # None
                  /\ steps_beyond_done[e] > call[e].pre_sbd

\* a third done step of an episode returned reward 0.0
C2_Witness ==
    \E e \in Engines :
        /\ Stepped(e)
        /\ ret[e].done
        /\ done_steps[e] = 3
        /\ ret[e].reward = 0

\* C3: whatever came before, reset stores (-5.0, 0.0, 0.3*pi, 0.0), returns
\* that tuple and sets the counter to None.
C3_ResetRestores ==
    \A e \in Engines :
        call[e].op = "reset" =>
            /\ state[e] = << -5000, 0, 942, 0 >>
            /\ ret[e].obs = << -5000, 0, 942, 0 >>
            /\ steps_beyond_done[e] = None

\* a reset after stepping past termination
C3_Witness ==
    \E e \in Engines :
        /\ call[e].op = "reset"
        /\ call[e].pre_sbd >= 1
        /\ call[e].pre # << -5000, 0, 942, 0 >>

\* C4: after any step the theta of the resulting state lies in (-pi, pi].
C4_ThetaWrapped ==
    \A e \in Engines :
        Stepped(e) => (state[e][3] > -PI /\ state[e][3] <= PI)

\* C5: from a state with x and theta strictly inside the thresholds, one
\* step yields reward 1.0 and done = false, whatever the rates, the action
\* and the counter.
C5_InsideStaysAlive ==
    \A e \in Engines :
        (/\ Stepped(e)
         /\ Abs(call[e].pre[1]) < 2400
         /\ Abs(call[e].pre[3]) < 209)
        => (ret[e].reward = 1 /\ ~ret[e].done)

\* C5 amended: from such a state one step yields reward 1.0 and done = false
\* provided the returned x and theta are still within the thresholds.
C5_InsideAliveWhileInside ==
    \A e \in Engines :
        (/\ Stepped(e)
         /\ Abs(call[e].pre[1]) < 2400
         /\ Abs(call[e].pre[3]) < 209
         /\ Abs(ret[e].obs[1]) <= 2400
         /\ Abs(ret[e].obs[3]) <= 209)
        => (ret[e].reward = 1 /\ ~ret[e].done)

\* a step from inside the thresholds to inside the thresholds, counter set
C5_Witness ==
    \E e \in Engines :
        /\ Stepped(e)
        /\ Abs(call[e].pre[1]) < 2400
        /\ Abs(call[e].pre[3]) < 209
        /\ Abs(ret[e].obs[1]) <= 2400
        /\ Abs(ret[e].obs[3]) <= 209
        /\ call[e].pre_sbd # None
        /\ call[e].pre # ret[e].obs

\* C6: the counter is None from a reset until the first step that returns
\* done; from then on every subsequent step call increments it by one.
C6_IncrementsEveryStep ==
    \A e \in Engines :
        /\ (state[e] # NoState /\ done_steps[e] = 0) => steps_beyond_done[e] = None
        /\ (Stepped(e) /\ EarlierDone(e) >= 1) =>
               steps_beyond_done[e] = call[e].pre_sbd + 1

\* C6 amended: ... from then on every subsequent step call that returns
\* done = true increments it by one, and one that returns done = false
\* leaves it as it was.
C6_IncrementsEveryDoneStep ==
    \A e \in Engines :
        /\ (state[e] # NoState /\ done_steps[e] = 0) => steps_beyond_done[e] = None
        /\ (Stepped(e) /\ EarlierDone(e) >= 1) =>
               /\ call[e].pre_sbd # None
               /\ steps_beyond_done[e] =
                      IF ret[e].done THEN call[e].pre_sbd + 1 ELSE call[e].pre_sbd

\* after two done steps, a step that is not done, then a done step again
C6_Witness ==
    \E e \in Engines :
        /\ Stepped(e)
        /\ ret[e].done
        /\ nsteps[e] = 4
        /\ done_steps[e] = 3
        /\ steps_beyond_done[e] = 2

\* C7: between two resets the warning is emitted at most once, by the first
\* step that returns done with the counter already set (0 at entry), and by
\* no step that returns done = false or that terminates the episode.
C7_WarnsOnce ==
    \A e \in Engines :
        /\ warn_count[e] <= 1
        /\ Stepped(e) =>
              /\ logged[e] <=> (ret[e].done /\ call[e].pre_sbd = 0)
              /\ logged[e] => (EarlierDone(e) = 1 /\ warn_count[e] = 1)
              /\ (ret[e].done /\ EarlierDone(e) = 1) => logged[e]

\* a third done step, after the warning, emitted nothing
C7_Witness ==
    \E e \in Engines :
        /\ Stepped(e)
        /\ ret[e].done
        /\ EarlierDone(e) = 2
        /\ ~logged[e]
        /\ warn_count[e] = 1

C9_FirstStepTerminates ==
    \A e \in Engines :
        (Stepped(e) /\ nsteps[e] = 1) =>
            /\ ret[e].obs[1] = -5000
            /\ ret[e].done
            /\ ret[e].reward = 1
            /\ steps_beyond_done[e] = 0

\* a first step with a large force: the cart gained speed and has not moved
C9_Witness ==
    \E e \in Engines :
        /\ Stepped(e)
        /\ nsteps[e] = 1
        /\ call[e].arg = <<-107000000>>
        /\ ret[e].obs[2] > 900000
        /\ ret[e].obs[1] = -5000

\* C10: the counter is None exactly when no step since the last reset
\* returned done, and otherwise is the number of such steps minus one; a
\* step that returns done = false leaves the counter unchanged and returns
\* reward 1.0 even when the counter is set.
C10_CounterCountsDoneSteps ==
    \A e \in Engines :
        /\ steps_beyond_done[e] = None <=> done_steps[e] = 0
        /\ steps_beyond_done[e] # None => steps_beyond_done[e] = done_steps[e] - 1
        /\ (Stepped(e) /\ ~ret[e].done) =>
              /\ steps_beyond_done[e] = call[e].pre_sbd
              /\ ret[e].reward = 1

\* a step that is not done while the counter is set
C10_Witness ==
    \E e \in Engines :
        /\ Stepped(e)
        /\ ~ret[e].done
        /\ call[e].pre_sbd # None
        /\ steps_beyond_done[e] = done_steps[e] - 1

====
